---------------------------- MODULE Spec2Model ----------------------------
(***************************************************************************)
(* PageRank (pagerank.py): transition_model, sample_pagerank and           *)
(* iterate_pagerank as a state machine over a link graph.                  *)
(*                                                                         *)
(* Numbers.  The program computes with Python floats; the model computes   *)
(* the same expressions over exact rationals, so that "sums to 1" and      *)
(* "changes by more than 0.001" are decided exactly and not up to the      *)
(* rounding of one platform.  TLC's integers are 32 bits wide, so a        *)
(* rational is kept as a sign, a numerator in limbs of base 10^4, and a    *)
(* denominator split into a limb cofactor and the exponents of the small   *)
(* primes 2, 3, 5, 7 (the only primes that 1/N, 1/len(links) and the       *)
(* damping factors bring in).                                              *)
(***************************************************************************)
EXTENDS Integers, Sequences, FiniteSets, TLC

(***************************************************************************)
(* Natural numbers of any size: little-endian limbs, no leading zero limb. *)
(***************************************************************************)
Base == 10^4

BigZero == << >>
BigOne == <<1>>

Rest(a) == IF a = << >> THEN << >> ELSE Tail(a)
Low(a) == IF a = << >> THEN 0 ELSE Head(a)

RECURSIVE Trim(_)
Trim(a) ==
    IF a = << >> THEN << >>
    ELSE IF a[Len(a)] = 0 THEN Trim(SubSeq(a, 1, Len(a) - 1))
    ELSE a

BigOfInt(k) == Trim(<<k % Base, (k \div Base) % Base, k \div (Base * Base)>>)

RECURSIVE AddCarry(_, _, _)
AddCarry(a, b, c) ==
    IF a = << >> /\ b = << >>
    THEN (IF c = 0 THEN << >> ELSE <<c>>)
    ELSE LET s == Low(a) + Low(b) + c
         IN  <<s % Base>> \o AddCarry(Rest(a), Rest(b), s \div Base)

BigAdd(a, b) == AddCarry(a, b, 0)

RECURSIVE SubBorrow(_, _, _)
SubBorrow(a, b, c) ==
    IF a = << >> THEN << >>
    ELSE LET s == Low(a) - Low(b) - c
         IN  IF s < 0
             THEN <<s + Base>> \o SubBorrow(Rest(a), Rest(b), 1)
             ELSE <<s>> \o SubBorrow(Rest(a), Rest(b), 0)

\* a - b for a >= b
BigSub(a, b) == Trim(SubBorrow(a, b, 0))

RECURSIVE CmpFrom(_, _, _)
CmpFrom(a, b, i) ==
    IF i = 0 THEN 0
    ELSE IF a[i] < b[i] THEN -1
    ELSE IF a[i] > b[i] THEN 1
    ELSE CmpFrom(a, b, i - 1)

\* -1, 0 or 1 as a < b, a = b, a > b
BigCmp(a, b) ==
    IF Len(a) < Len(b) THEN -1
    ELSE IF Len(a) > Len(b) THEN 1
    ELSE CmpFrom(a, b, Len(a))

RECURSIVE MulCarry(_, _, _)
MulCarry(a, k, c) ==
    IF a = << >>
    THEN (IF c = 0 THEN << >> ELSE <<c % Base>> \o MulCarry(<< >>, k, c \div Base))
    ELSE LET s == Head(a) * k + c
         IN  <<s % Base>> \o MulCarry(Tail(a), k, s \div Base)

\* a * k for a limb-sized k
BigMulSmall(a, k) == IF k = 0 THEN << >> ELSE MulCarry(a, k, 0)

RECURSIVE BigMul(_, _)
BigMul(a, b) ==
    IF a = << >> \/ b = << >> THEN << >>
    ELSE LET hi == BigMul(a, Tail(b))
         IN  BigAdd(BigMulSmall(a, Head(b)),
                    IF hi = << >> THEN << >> ELSE <<0>> \o hi)

RECURSIVE ModFrom(_, _, _, _)
ModFrom(a, k, i, r) ==
    IF i = 0 THEN r ELSE ModFrom(a, k, i - 1, (r * Base + a[i]) % k)

\* a mod k for a limb-sized k
BigModSmall(a, k) == ModFrom(a, k, Len(a), 0)

RECURSIVE DivFrom(_, _, _, _)
DivFrom(a, k, i, r) ==
    IF i = 0 THEN << >>
    ELSE LET x == r * Base + a[i]
         IN  Append(DivFrom(a, k, i - 1, x % k), x \div k)

\* a div k for a limb-sized k
BigDivSmall(a, k) == Trim(DivFrom(a, k, Len(a), 0))

(***************************************************************************)
(* Exact rationals: sg * m / (c * 2^e[1] * 3^e[2] * 5^e[3] * 7^e[4]), with *)
(* sg the sign, m and c naturals in limbs and c free of the primes of      *)
(* Primes.  The operations return a value in any such form; Lowest         *)
(* cancels the primes of Primes, and with c = 1 (every value an unmodified *)
(* run computes) the lowest form of a number is unique.  Numbers are       *)
(* compared by REq and RLess, by value.                                    *)
(***************************************************************************)
Primes == <<2, 3, 5, 7>>

\* the largest power of each prime to multiply or divide a limb by at once
PowExp == <<13, 8, 5, 4>>

NoExp == [i \in DOMAIN Primes |-> 0]

RZero == [sg |-> 0, m |-> BigZero, c |-> BigOne, e |-> NoExp]

Max(x, y) == IF x >= y THEN x ELSE y

Min(x, y) == IF x <= y THEN x ELSE y

Abs(x) == IF x < 0 THEN -x ELSE x

RECURSIVE Valuation(_, _)
\* the exponent of p in r, for r > 0
Valuation(r, p) == IF r % p = 0 THEN 1 + Valuation(r \div p, p) ELSE 0

RECURSIVE Cancel(_, _, _)
\* m / g and e - exponents(g) for the largest g | m with exponents(g) <= e
Cancel(m, e, i) ==
    IF i > Len(Primes) THEN [m |-> m, e |-> e]
    ELSE IF e[i] = 0 THEN Cancel(m, e, i + 1)
    ELSE LET j == Min(e[i], PowExp[i])
             r == BigModSmall(m, Primes[i]^j)
         IN  IF r = 0
             THEN Cancel(BigDivSmall(m, Primes[i]^j), [e EXCEPT ![i] = @ - j], i)
             ELSE LET t == Valuation(r, Primes[i])
                  IN  Cancel(IF t = 0 THEN m ELSE BigDivSmall(m, Primes[i]^t),
                             [e EXCEPT ![i] = @ - t], i + 1)

\* a in lowest terms over Primes
Lowest(a) ==
    IF a.sg = 0 THEN RZero
    ELSE LET r == Cancel(a.m, a.e, 1)
         IN  [sg |-> a.sg, m |-> r.m, c |-> a.c, e |-> r.e]

RECURSIVE Scale(_, _, _)
\* m * Primes^k
Scale(m, k, i) ==
    IF i > Len(Primes) THEN m
    ELSE IF k[i] = 0 THEN Scale(m, k, i + 1)
    ELSE LET j == Min(k[i], PowExp[i])
         IN  Scale(BigMulSmall(m, Primes[i]^j), [k EXCEPT ![i] = @ - j], i)

RECURSIVE Factor(_, _, _)
\* m = cof * Primes^f with cof free of the primes of Primes, for m > 0
Factor(m, f, i) ==
    IF i > Len(Primes) \/ m = BigOne THEN [cof |-> m, f |-> f]
    ELSE LET j == PowExp[i]
             r == BigModSmall(m, Primes[i]^j)
         IN  IF r = 0
             THEN Factor(BigDivSmall(m, Primes[i]^j), [f EXCEPT ![i] = @ + j], i)
             ELSE LET t == Valuation(r, Primes[i])
                  IN  Factor(IF t = 0 THEN m ELSE BigDivSmall(m, Primes[i]^t),
                             [f EXCEPT ![i] = @ + t], i + 1)

\* a * b, with the frequent factor 1 passed through
Times(a, b) == IF b = BigOne THEN a ELSE IF a = BigOne THEN b ELSE BigMul(a, b)

RInt(k) ==
    IF k = 0 THEN RZero
    ELSE [sg |-> IF k < 0 THEN -1 ELSE 1, m |-> BigOfInt(Abs(k)),
          c |-> BigOne, e |-> NoExp]

ROne == RInt(1)

RNeg(a) == [a EXCEPT !.sg = -a.sg]

RAbs(a) == [a EXCEPT !.sg = Abs(a.sg)]

\* sa * ma + sb * mb as a sign and a magnitude
SignedSum(sa, ma, sb, mb) ==
    IF sa = 0 THEN [sg |-> sb, m |-> mb]
    ELSE IF sb = 0 THEN [sg |-> sa, m |-> ma]
    ELSE IF sa = sb THEN [sg |-> sa, m |-> BigAdd(ma, mb)]
    ELSE LET o == BigCmp(ma, mb)
         IN  IF o = 0 THEN [sg |-> 0, m |-> BigZero]
             ELSE IF o > 0 THEN [sg |-> sa, m |-> BigSub(ma, mb)]
             ELSE [sg |-> sb, m |-> BigSub(mb, ma)]

RAdd(a, b) ==
    IF a.sg = 0 THEN b
    ELSE IF b.sg = 0 THEN a
    ELSE LET e  == [i \in DOMAIN Primes |-> Max(a.e[i], b.e[i])]
             same == a.c = b.c
             ma == Scale(IF same THEN a.m ELSE BigMul(a.m, b.c),
                         [i \in DOMAIN Primes |-> e[i] - a.e[i]], 1)
             mb == Scale(IF same THEN b.m ELSE BigMul(b.m, a.c),
                         [i \in DOMAIN Primes |-> e[i] - b.e[i]], 1)
             s  == SignedSum(a.sg, ma, b.sg, mb)
         IN  IF s.sg = 0 THEN RZero
             ELSE [sg |-> s.sg, m |-> s.m,
                   c |-> IF same THEN a.c ELSE BigMul(a.c, b.c), e |-> e]

RSub(a, b) == RAdd(a, RNeg(b))

RMul(a, b) ==
    IF a.sg = 0 \/ b.sg = 0 THEN RZero
    ELSE [sg |-> a.sg * b.sg, m |-> Times(a.m, b.m), c |-> Times(a.c, b.c),
          e |-> [i \in DOMAIN Primes |-> a.e[i] + b.e[i]]]

\* a / b for b # 0 (Python raises ZeroDivisionError for b = 0)
RDiv(a, b) ==
    IF a.sg = 0 THEN RZero
    ELSE LET d == Factor(b.m, NoExp, 1)
         IN  [sg |-> a.sg * b.sg,
              m |-> Scale(Times(a.m, b.c), b.e, 1),
              c |-> Times(a.c, d.cof),
              e |-> [i \in DOMAIN Primes |-> a.e[i] + d.f[i]]]

REq(a, b) == RSub(a, b).sg = 0

RLess(a, b) == RSub(a, b).sg < 0

RLeq(a, b) == RSub(a, b).sg <= 0

\* the rational n / d of two integers, d # 0, in lowest terms
RFrac(n, d) == Lowest(RDiv(RInt(n), RInt(d)))

-----------------------------------------------------------------------------
(***************************************************************************)
(* Inputs.  A corpus is what crawl returns: a dict from page to the set of *)
(* other pages of the corpus it links to.  Pages are numbered 1..N in the  *)
(* dict's iteration order, so a corpus is a sequence of link sets.         *)
(***************************************************************************)
MaxPages == 4
MaxLinks == 4
MaxSamples == 2
MaxLimbs == 17
MaxLimbsInvalid == 2

RECURSIVE CorporaFrom(_, _, _)
\* the corpora of n pages that extend the rows `done` by at most `left` links:
\* no page links to itself, every link is to a page of the corpus
CorporaFrom(n, done, left) ==
    IF Len(done) = n THEN {done}
    ELSE LET p == Len(done) + 1
         IN  UNION { CorporaFrom(n, Append(done, links), left - Cardinality(links)) :
                     links \in { l \in SUBSET ((1..n) \ {p}) : Cardinality(l) <= left } }

Numberings(n) == { f \in [1..n -> 1..n] : \A p, q \in 1..n : f[p] = f[q] => p = q }

RECURSIVE SumPow(_)
SumPow(S) ==
    IF S = {} THEN 0
    ELSE LET b == CHOOSE x \in S : TRUE IN 2^b + SumPow(S \ {b})

\* the link matrix of c as a number, its pages renumbered by f
Code(c, f) ==
    SumPow(UNION { { (f[p] - 1) * Len(c) + (f[q] - 1) : q \in c[p] } :
                   p \in DOMAIN c })

\* crawl numbers the pages in the order os.listdir gives them, and no result
\* over the rationals depends on the numbering of a corpus: one numbering of
\* every corpus is kept, that of the least link matrix
LeastNumbering(c) ==
    LET id == [p \in DOMAIN c |-> p]
        own == Code(c, id)
    IN  \A f \in Numberings(Len(c)) : own <= Code(c, f)

\* every corpus of at most MaxPages pages and MaxLinks links
Corpora ==
    UNION { { c \in CorporaFrom(n, << >>, MaxLinks) : LeastNumbering(c) } :
            n \in 1..MaxPages }

DAMPING == RFrac(17, 20)

\* damping factors inside [0, 1], as numerator and denominator
ValidDampings == {<<0, 1>>, <<1, 2>>, <<17, 20>>, <<1, 1>>}

\* damping factors outside [0, 1]
InvalidDampings == {<<3, 2>>, <<-1, 2>>}

\* the damping_factor arguments the caller passes
Dampings == ValidDampings \cup InvalidDampings

ValidDamping(d) == RLeq(RZero, d) /\ RLeq(d, ROne)

SampleCounts == -1..MaxSamples

-----------------------------------------------------------------------------
VARIABLES
    corpus,         \* the link graph the caller holds and passes to each call
    call,           \* the function running: "none" when the caller is idle
    pc,             \* where the running function is
    damping_factor, \* the call's damping_factor argument
    n,              \* sample_pagerank's n argument
    page,           \* transition_model's page argument
    counts,         \* sample_pagerank: visit counts
    current_page,   \* sample_pagerank: the page the walk is at
    i,              \* sample_pagerank: iterations of the for loop done
    pagerank,       \* iterate_pagerank: the rank mapping of the last sweep
    convergence,    \* iterate_pagerank: the flag the while loop tests
    result          \* the value the call returned

vars == <<corpus, call, pc, damping_factor, n, page, counts, current_page, i,
          pagerank, convergence, result>>

None == << >>

Pages(c) == DOMAIN c

RECURSIVE RSum(_, _)
\* sum(f.values()) over the pages 1..k
RSum(f, k) == IF k = 0 THEN RZero ELSE RAdd(RSum(f, k - 1), f[k])

RECURSIVE IntSum(_, _)
IntSum(f, k) == IF k = 0 THEN 0 ELSE IntSum(f, k - 1) + f[k]

(***************************************************************************)
(* transition_model                                                        *)
(***************************************************************************)
\* a linked page gets the damping share only, not the teleport share as well
TransitionModelExclusive(c, p0, d) ==
    LET n_pages == Len(c)
        links == c[p0]
    IN  IF links # {}
        THEN [p \in Pages(c) |->
                IF p \in links THEN Lowest(RDiv(d, RInt(Cardinality(links))))
                ELSE Lowest(RDiv(RSub(ROne, d), RInt(n_pages)))]
        ELSE [p \in Pages(c) |-> Lowest(RDiv(ROne, RInt(n_pages)))]

\* a page without links keeps the teleport share only
TransitionModelNoDangling(c, p0, d) ==
    LET n_pages == Len(c)
        links == c[p0]
    IN  [p \in Pages(c) |->
            IF p \in links
            THEN Lowest(RAdd(RDiv(RSub(ROne, d), RInt(n_pages)),
                             RDiv(d, RInt(Cardinality(links)))))
            ELSE Lowest(RDiv(RSub(ROne, d), RInt(n_pages)))]

TransitionModel(c, p0, d) ==
    LET n_pages == Len(c)
        links == c[p0]
    IN  IF links # {}
        THEN [p \in Pages(c) |->
                IF p \in links
                THEN Lowest(RAdd(RDiv(RSub(ROne, d), RInt(n_pages)),
                                 RDiv(d, RInt(Cardinality(links)))))
                ELSE Lowest(RDiv(RSub(ROne, d), RInt(n_pages)))]
        ELSE [p \in Pages(c) |-> Lowest(RDiv(ROne, RInt(n_pages)))]

(***************************************************************************)
(* random.choices(next_pages, weights=probabilities, k=1)[0]: the weights  *)
(* are accumulated, a ValueError is raised unless their total is positive, *)
(* and the page returned is population[bisect(cum_weights, x, 0, n - 1)]   *)
(* for x = random() * total, any point of [0, total).                      *)
(***************************************************************************)
RECURSIVE Accumulate(_, _)
Accumulate(w, k) ==
    IF k = 0 THEN << >>
    ELSE LET before == Accumulate(w, k - 1)
         IN  Append(before, IF k = 1 THEN w[1] ELSE RAdd(before[k - 1], w[k]))

RECURSIVE Bisect(_, _, _, _)
\* bisect_right(a, x, lo, hi), indices from 0 as in Python
Bisect(a, x, lo, hi) ==
    IF lo >= hi THEN lo
    ELSE LET mid == (lo + hi) \div 2
         IN  IF RLess(x, a[mid + 1]) THEN Bisect(a, x, lo, mid)
             ELSE Bisect(a, x, mid + 1, hi)

\* one point of every interval of [0, total) that the comparisons of the
\* bisection tell apart
Draws(cum, total) ==
    {RZero} \cup { cum[k] : k \in { j \in DOMAIN cum :
                                      RLess(RZero, cum[j]) /\ RLess(cum[j], total) } }

\* the pages random.choices can return; {} when it raises ValueError
Choices(model) ==
    LET cum == Accumulate(model, Len(model))
        total == cum[Len(cum)]
    IN  IF RLeq(total, RZero) THEN {}
        ELSE { Bisect(cum, x, 0, Len(cum) - 1) + 1 : x \in Draws(cum, total) }

(***************************************************************************)
(* sample_pagerank                                                         *)
(***************************************************************************)
\* counts[current_page] += 1
Increment(cnt, p) == [cnt EXCEPT ![p] = @ + 1]

\* counts divided by the number of pages, not by n
NormalizeCountsByPages(cnt, k) == [p \in DOMAIN cnt |-> RFrac(cnt[p], Len(cnt))]

\* {page: counts[page] / n for page in corpus}
NormalizeCounts(cnt, k) == [p \in DOMAIN cnt |-> RFrac(cnt[p], k)]

(***************************************************************************)
(* iterate_pagerank                                                        *)
(***************************************************************************)
threshold == RFrac(1, 1000)

\* a page without links taken as linking to every other page, not to itself
LinksToOthers(c, q) == IF c[q] # {} THEN c[q] ELSE Pages(c) \ {q}

\* corpus[possible_page] if corpus[possible_page] else set(corpus.keys())
Links(c, q) == IF c[q] # {} THEN c[q] ELSE Pages(c)

\* the ranks a sweep reads, with the pages already recomputed read from
\* new_pagerank
RanksReadInPlace(old, new) ==
    [q \in DOMAIN old |-> IF q \in DOMAIN new THEN new[q] ELSE old[q]]

\* the ranks a sweep reads: pagerank, never new_pagerank
RanksRead(old, new) == old

RECURSIVE Total(_, _, _, _)
\* the inner loop: total after the possible_pages 1..q
Total(c, ranks, p, q) ==
    IF q = 0 THEN RZero
    ELSE LET links == Links(c, q)
             before == Total(c, ranks, p, q - 1)
         IN  IF p \in links
             THEN RAdd(before, RDiv(ranks[q], RInt(Cardinality(links))))
             ELSE before

\* (1 - damping_factor) / N + damping_factor * total
NewRank(c, ranks, p, d) ==
    Lowest(RAdd(RDiv(RSub(ROne, d), RInt(Len(c))),
                RMul(d, Total(c, ranks, p, Len(c)))))

\* only the last page's change decides convergence
ChangedLastOnly(new, old, p) ==
    p = Len(old) /\ RLess(threshold, RAbs(RSub(new[p], old[p])))

\* abs(new_pagerank[page] - pagerank[page]) > threshold
Changed(new, old, p) == RLess(threshold, RAbs(RSub(new[p], old[p])))

RECURSIVE SweepFrom(_, _, _, _)
\* one pass of the while loop's body over the pages 1..p: new_pagerank and
\* the convergence flag
SweepFrom(c, old, d, p) ==
    IF p = 0 THEN [new_pagerank |-> << >>, convergence |-> TRUE]
    ELSE LET before == SweepFrom(c, old, d, p - 1)
             new == Append(before.new_pagerank,
                           NewRank(c, RanksRead(old, before.new_pagerank), p, d))
         IN  [new_pagerank |-> new,
              convergence |-> before.convergence /\ ~Changed(new, old, p)]

Sweep(c, old, d) == SweepFrom(c, old, d, Len(c))

\* the ranks divided by the number of pages, not by their sum
NormalizeByPages(ranks) ==
    [p \in DOMAIN ranks |-> Lowest(RDiv(ranks[p], RInt(Len(ranks))))]

\* {page: rank / total_rank for page, rank in pagerank.items()}
Normalize(ranks) ==
    LET total_rank == RSum(ranks, Len(ranks))
    IN  [p \in DOMAIN ranks |-> Lowest(RDiv(ranks[p], total_rank))]

\* the corpus after a sweep that stores the substituted link sets in it
CorpusFilled(c) == [q \in DOMAIN c |-> Links(c, q)]

\* the corpus after a call: every function only reads it
CorpusRead(c) == c

\* the widest numerator of a rank mapping, in limbs
Limbs(ranks) ==
    LET lens == { Len(ranks[p].m) : p \in DOMAIN ranks }
    IN  CHOOSE k \in lens : \A j \in lens : j <= k

-----------------------------------------------------------------------------
Init ==
    /\ corpus \in Corpora
    /\ call = "none"
    /\ pc = "idle"
    /\ damping_factor = None
    /\ n = None
    /\ page = None
    /\ counts = None
    /\ current_page = None
    /\ i = None
    /\ pagerank = None
    /\ convergence = None
    /\ result = None

\* transition_model(corpus, page, damping_factor)
CallTransitionModel(p0, q) ==
    /\ pc = "idle"
    /\ call' = "transition_model"
    /\ page' = p0
    /\ damping_factor' = RFrac(q[1], q[2])
    /\ result' = TransitionModel(corpus, p0, damping_factor')
    /\ pc' = "returned"
    /\ corpus' = CorpusRead(corpus)
    /\ UNCHANGED <<n, counts, current_page, i, pagerank, convergence>>

\* sample_pagerank(corpus, damping_factor, n), to the head of the for loop
CallSample(q, k) ==
    /\ pc = "idle"
    /\ call' = "sample_pagerank"
    /\ damping_factor' = RFrac(q[1], q[2])
    /\ n' = k
    /\ counts' = [p \in Pages(corpus) |-> 0]
    /\ current_page' \in Pages(corpus)
    /\ i' = 0
    /\ pc' = "sampling"
    /\ UNCHANGED <<corpus, page, pagerank, convergence, result>>

\* one iteration of `for _ in range(n)`
SampleStep ==
    /\ pc = "sampling"
    /\ i < n
    /\ LET model == TransitionModel(corpus, current_page, damping_factor)
           next_pages == Choices(model)
       IN  /\ counts' = Increment(counts, current_page)
           /\ i' = i + 1
           /\ IF next_pages = {}
              THEN pc' = "raised" /\ UNCHANGED current_page
              ELSE pc' = "sampling" /\ current_page' \in next_pages
    /\ corpus' = CorpusRead(corpus)
    /\ UNCHANGED <<call, damping_factor, n, page, pagerank, convergence, result>>

\* after the loop: counts[page] / n, a ZeroDivisionError for n = 0
SampleReturn ==
    /\ pc = "sampling"
    /\ i >= n
    /\ IF n = 0
       THEN pc' = "raised" /\ UNCHANGED result
       ELSE pc' = "returned" /\ result' = NormalizeCounts(counts, n)
    /\ UNCHANGED <<corpus, call, damping_factor, n, page, counts, current_page,
                   i, pagerank, convergence>>

\* iterate_pagerank(corpus, damping_factor), to the head of the while loop
CallIterate(q) ==
    /\ pc = "idle"
    /\ call' = "iterate_pagerank"
    /\ damping_factor' = RFrac(q[1], q[2])
    /\ pagerank' = [p \in Pages(corpus) |-> Lowest(RDiv(ROne, RInt(Len(corpus))))]
    /\ convergence' = FALSE
    /\ pc' = "while"
    /\ UNCHANGED <<corpus, n, page, counts, current_page, i, result>>

\* `while not convergence:`
WhileTest ==
    /\ pc = "while"
    /\ pc' = IF convergence THEN "normalize" ELSE "sweep"
    /\ UNCHANGED <<corpus, call, damping_factor, n, page, counts, current_page,
                   i, pagerank, convergence, result>>

\* the numerators of the ranks fit the width the sweeps are followed to
Followed ==
    Limbs(pagerank) <= (IF ValidDamping(damping_factor) THEN MaxLimbs
                        ELSE MaxLimbsInvalid)

\* the body of the while loop: one sweep over the pages
SweepStep ==
    /\ pc = "sweep"
    /\ Followed
    /\ LET s == Sweep(corpus, pagerank, damping_factor)
       IN  /\ pagerank' = s.new_pagerank
           /\ convergence' = s.convergence
    /\ pc' = "while"
    /\ corpus' = CorpusRead(corpus)
    /\ UNCHANGED <<call, damping_factor, n, page, counts, current_page, i, result>>

\* after the loop: the ranks divided by their sum
IterateReturn ==
    /\ pc = "normalize"
    /\ IF RSum(pagerank, Len(pagerank)) = RZero
       THEN pc' = "raised" /\ UNCHANGED result
       ELSE pc' = "returned" /\ result' = Normalize(pagerank)
    /\ UNCHANGED <<corpus, call, damping_factor, n, page, counts, current_page,
                   i, pagerank, convergence>>

\* the caller takes the outcome and is free to call again
Resume ==
    /\ pc \in {"returned", "raised"}
    /\ call' = "none"
    /\ pc' = "idle"
    /\ damping_factor' = None
    /\ n' = None
    /\ page' = None
    /\ counts' = None
    /\ current_page' = None
    /\ i' = None
    /\ pagerank' = None
    /\ convergence' = None
    /\ result' = None
    /\ UNCHANGED corpus

Next ==
    \/ \E p0 \in Pages(corpus), q \in Dampings : CallTransitionModel(p0, q)
    \/ \E q \in Dampings, k \in SampleCounts : CallSample(q, k)
    \/ SampleStep
    \/ SampleReturn
    \/ \E q \in Dampings : CallIterate(q)
    \/ WhileTest
    \/ SweepStep
    \/ IterateReturn
    \/ Resume

Spec == Init /\ [][Next]_vars

\* SweepStep and IterateReturn as the control sees them: the only steps that
\* leave "sweep" and "normalize"
SweepControl == pc = "sweep" /\ Followed /\ pc' = "while"

ReturnControl == pc = "normalize" /\ pc' \in {"returned", "raised"}

\* a running call goes on: the interpreter runs the next statement
FairSpec ==
    Spec /\ WF_vars(WhileTest) /\ WF_pc(SweepControl) /\ WF_pc(ReturnControl)

-----------------------------------------------------------------------------
(***************************************************************************)
(* What the claims speak of.                                               *)
(***************************************************************************)
Returned(f) == call = f /\ pc = "returned"

\* the numerator and denominator the caller passed as damping_factor
DampingArg == CHOOSE q \in Dampings : RFrac(q[1], q[2]) = damping_factor

NonNegative(f) == \A p \in DOMAIN f : f[p].sg >= 0

SumsToOne(f) == REq(RSum(f, Len(f)), ROne)

\* damping_factor outside [0, 1], or a sample count below 1
InvalidParameter ==
    /\ call # "none"
    /\ \/ ~ValidDamping(damping_factor)
       \/ call = "sample_pagerank" /\ n < 1

InitialRanks == [p \in Pages(corpus) |-> RFrac(1, Len(corpus))]

\* a run whose numerators have outgrown the width is followed no further
BeyondModel == pc = "sweep" /\ ~Followed

Dangling(c) == { q \in Pages(c) : c[q] = {} }

RECURSIVE SumOver(_, _, _)
\* the sum of r[q] / k[q] over the pages q of S
SumOver(S, r, k) ==
    IF S = {} THEN RZero
    ELSE LET q == CHOOSE x \in S : TRUE
         IN  RAdd(RDiv(r[q], RInt(k[q])), SumOver(S \ {q}, r, k))

\* the PageRank recurrence for page p from the ranks r:
\* (1 - d)/N + d * (sum of r[q]/L(q) over the pages q linking to p
\*                  + (sum of r[q] over the pages q without links) / N)
Recurrence(c, r, p, q) ==
    LET N == Len(c)
        L == [x \in Pages(c) |-> Cardinality(c[x])]
        ones == [x \in Pages(c) |-> 1]
        linking == { x \in Pages(c) : p \in c[x] }
    IN  RAdd(RFrac(q[2] - q[1], q[2] * N),
             RMul(RFrac(q[1], q[2]),
                  RAdd(SumOver(linking, r, L),
                       RDiv(SumOver(Dangling(c), r, ones), RInt(N)))))

\* C1: once iterate_pagerank is called on a corpus with a damping factor in
\* [0, 1], its while loop ends and the function returns (or the run leaves
\* the numbers that are followed).
C1_IterationTerminates ==
    (call = "iterate_pagerank" /\ ValidDamping(damping_factor))
        ~> (pc = "returned" \/ BeyondModel)

\* C2: a call with an invalid parameter ends in an error without a sampling
\* step, without a sweep and without returning a value.
C2_InvalidParameterRejected ==
    InvalidParameter =>
        /\ pc \notin {"returned", "normalize"}
        /\ pc = "sampling" => i = 0
        /\ pc \in {"while", "sweep"} => pagerank = InitialRanks

\* C3: for a damping factor in [0, 1], transition_model returns a
\* distribution over exactly the pages of the corpus, no probability is
\* negative, and the probabilities sum to 1.
C3_TransitionDistribution ==
    (Returned("transition_model") /\ ValidDamping(damping_factor)) =>
        /\ DOMAIN result = Pages(corpus)
        /\ NonNegative(result)
        /\ SumsToOne(result)

C3_Witness ==
    /\ Returned("transition_model")
    /\ ValidDamping(damping_factor)
    /\ damping_factor \notin {RZero, ROne}
    /\ corpus[page] # {}
    /\ Pages(corpus) \ corpus[page] # {page}

\* C4: transition_model gives page p the share (1-d)/N, and d/L more when
\* the source page links to p; from a source page without links every page
\* gets 1/N.
C4_TransitionFormula ==
    (Returned("transition_model") /\ ValidDamping(damping_factor)) =>
        LET N == Len(corpus)
            L == Cardinality(corpus[page])
            q == DampingArg
        IN  \A p \in Pages(corpus) :
                REq(result[p],
                    IF L = 0 THEN RFrac(1, N)
                    ELSE IF p \in corpus[page]
                    THEN RFrac((q[2] - q[1]) * L + q[1] * N, q[2] * N * L)
                    ELSE RFrac(q[2] - q[1], q[2] * N))

C4_Witness ==
    /\ Returned("transition_model")
    /\ damping_factor = ROne
    /\ corpus[page] = {}
    /\ Len(corpus) > 1

\* C5: in sample_pagerank with n >= 1 every iteration adds one to the count
\* of the current page and to no other, the current page is a page of the
\* corpus, the counts sum to the iterations done, and the mapping returned
\* has the pages of the corpus as keys, values in [0, 1] and sum 1.
C5_SampleCounts ==
    /\ [](call = "sample_pagerank" /\ n >= 1 =>
            /\ pc = "sampling" =>
                /\ IntSum(counts, Len(counts)) = i
                /\ current_page \in Pages(corpus)
            /\ pc = "returned" =>
                /\ DOMAIN result = Pages(corpus)
                /\ \A p \in Pages(corpus) :
                       RLeq(RZero, result[p]) /\ RLeq(result[p], ROne)
                /\ SumsToOne(result))
    /\ [][(call = "sample_pagerank" /\ n >= 1 /\ pc = "sampling" /\ i' = i + 1) =>
            \A p \in Pages(corpus) :
                counts'[p] = counts[p] + (IF p = current_page THEN 1 ELSE 0)]_vars

C5_Witness ==
    /\ Returned("sample_pagerank")
    /\ n = MaxSamples
    /\ i = n
    /\ \E p \in Pages(corpus) : counts[p] = 1 /\ p # current_page

\* C6: for a damping factor in [0, 1], the mapping iterate_pagerank returns
\* has exactly the pages of the corpus as keys, no negative value, and
\* values that sum to 1.
C6_IterateRanks ==
    (Returned("iterate_pagerank") /\ ValidDamping(damping_factor)) =>
        /\ DOMAIN result = Pages(corpus)
        /\ NonNegative(result)
        /\ SumsToOne(result)

C6_Witness ==
    /\ Returned("iterate_pagerank")
    /\ damping_factor = DAMPING
    /\ Len(corpus) > 2
    /\ Dangling(corpus) # {}
    /\ \E p, q \in Pages(corpus) : RLess(result[p], result[q])

\* C7 as claimed: a sweep started from the mapping iterate_pagerank returned
\* changes no rank by more than the threshold.
C7_ConvergesImmediately ==
    (Returned("iterate_pagerank") /\ ValidDamping(damping_factor)) =>
        Sweep(corpus, result, damping_factor).convergence

\* C7 as amended: a sweep started from the mapping iterate_pagerank returned
\* changes no rank by more than d * floor(N/2) * threshold.
C7_RestartChangeBounded ==
    (Returned("iterate_pagerank") /\ ValidDamping(damping_factor)) =>
        LET again == Sweep(corpus, result, damping_factor).new_pagerank
            bound == RMul(RMul(damping_factor, RInt(Len(corpus) \div 2)), threshold)
        IN  \A p \in Pages(corpus) :
                RLeq(RAbs(RSub(again[p], result[p])), bound)

C7_Witness ==
    /\ Returned("iterate_pagerank")
    /\ ValidDamping(damping_factor)
    /\ Len(corpus) = 4
    /\ ~Sweep(corpus, result, damping_factor).convergence

\* C8: for the corpus {A: {}, B: {A}} and damping 0.85, iterate_pagerank
\* returns rank(A) > rank(B).
C8_DanglingRanksHigher ==
    (Returned("iterate_pagerank") /\ damping_factor = DAMPING /\ Len(corpus) = 2) =>
        \A a, b \in Pages(corpus) :
            (corpus[a] = {} /\ corpus[b] = {a}) => RLess(result[b], result[a])

C8_Witness ==
    /\ Returned("iterate_pagerank")
    /\ damping_factor = DAMPING
    /\ Len(corpus) = 2
    /\ \E a, b \in Pages(corpus) :
           corpus[a] = {} /\ corpus[b] = {a} /\ RLess(result[b], result[a])

\* C9: no step of transition_model, sample_pagerank or iterate_pagerank
\* changes the corpus.
C9_CorpusReadOnly == [][corpus' = corpus]_vars

C9_Witness ==
    /\ Returned("iterate_pagerank")
    /\ Dangling(corpus) # {}
    /\ Dangling(corpus) # Pages(corpus)

\* C10: a sweep gives every page the rank of the PageRank recurrence,
\* computed from the ranks as they were when the sweep began.
C10_SweepRecurrence ==
    [][(call = "iterate_pagerank" /\ pc = "sweep" /\ pc' = "while") =>
         \A p \in Pages(corpus) :
            REq(pagerank'[p], Recurrence(corpus, pagerank, p, DampingArg))]_vars

C10_Witness ==
    /\ call = "iterate_pagerank"
    /\ pc = "while"
    /\ ValidDamping(damping_factor)
    /\ Dangling(corpus) # {}
    /\ \E p \in Pages(corpus) : Cardinality(corpus[p]) = 2
    /\ pagerank # InitialRanks

=============================================================================
